---------------------------- MODULE Spec2Model ----------------------------
(***************************************************************************)
(* Model of the money-movement core of the banking ledger API:             *)
(* TransactionsService.createTransfer / createDeposit / createWithdrawal,  *)
(* the idempotency wrapper withIdempotency and the workers doTransfer,     *)
(* doDeposit and doWithdrawal, running against the PostgreSQL tables of    *)
(* the init migration; and of what AccountsService.updateAccount /         *)
(* deleteAccount and UsersService.deleteUser do to the same tables.         *)
(*                                                                         *)
(* Every await of the service is one step.  The store is PostgreSQL at     *)
(* its default isolation level (READ COMMITTED), which is what             *)
(* prisma.$transaction(fn) uses when no isolationLevel is passed:          *)
(*   - a statement reads the rows committed when it runs;                  *)
(*   - the writes of a transaction become visible at COMMIT, all at once;  *)
(*   - an UPDATE takes the row lock and holds it until COMMIT / ROLLBACK,  *)
(*     and applies {decrement: n} to the row version it locked;            *)
(*   - an INSERT that collides on a unique index with an uncommitted       *)
(*     insert of another transaction waits for that transaction, and       *)
(*     fails (Prisma P2002) when the row is or becomes committed.          *)
(***************************************************************************)
EXTENDS Integers, FiniteSets, Sequences, TLC

\* ---------------------------------------------------------------- bounds
MaxAmount == 2
InitBalance == 1

\* -------------------------------------------------------------- universe
Users == {"u1", "u2"}
Accounts == {"a1", "a2"}
MissingAccountId == "a0"
AccountIds == Accounts \cup {MissingAccountId}
RawKeys == {"k1", "k2", " ", ""}
Amounts == 0..MaxAmount
\* the requests in flight at the same time; a committed call's transferId and
\* row ids are drawn from its own number, which is what randomUUID / cuid
\* guarantee: ids never collide
Calls == {1, 2}

\* Account.type, and the mark of an account id without a row
AccountTypes == {"CHECKING", "SAVINGS"}

NoAccount == "-"

\* Account.userId of the rows of table "Account"
Owner == [a \in Accounts |-> IF a = "a1" THEN "u1" ELSE "u2"]

\* String.prototype.trim on the idempotency key
Trim(k) == IF k = " " THEN "" ELSE k

Keys == {Trim(k) : k \in RawKeys} \ {""}

\* ------------------------------------------------------- rows and values
NoRecord == [status |-> "ABSENT", responsePayload |-> <<>>]

ProcessingRecord == [status |-> "PROCESSING", responsePayload |-> <<>>]

CompletedRecord(result) == [status |-> "COMPLETED", responsePayload |-> result]

\* a transferId drawn anew for every row instead of once per operation
TransactionRowOwnTransferId(c, leg, accountId, amountCents, type) ==
    [id |-> <<c, leg>>, accountId |-> accountId, transferId |-> <<c, leg>>,
     amountCents |-> amountCents, type |-> type, status |-> "COMPLETED"]

TransactionRow(c, leg, accountId, amountCents, type) ==
    [id |-> <<c, leg>>, accountId |-> accountId, transferId |-> c,
     amountCents |-> amountCents, type |-> type, status |-> "COMPLETED"]

toTransactionSummary(tx) ==
    [id |-> tx.id, accountId |-> tx.accountId,
     amountCents |-> tx.amountCents, status |-> tx.status]

\* outcome of a call: what the caller gets back
NoOutcome == [exception |-> "-", message |-> "-", idempotencyStatus |-> "-"]

\* every success is reported as a first execution
ReturnedAsCreated(status) ==
    [exception |-> "none", message |-> "", idempotencyStatus |-> "CREATED"]

Returned(status) ==
    [exception |-> "none", message |-> "", idempotencyStatus |-> status]

KeyRequired ==
    [exception |-> "BadRequestException",
     message |-> "Idempotency-Key header is required", idempotencyStatus |-> "-"]

SameAccount ==
    [exception |-> "BadRequestException",
     message |-> "From account and to account cannot be the same",
     idempotencyStatus |-> "-"]

AmountNotPositive ==
    [exception |-> "BadRequestException",
     message |-> "Amount cannot be less than or equal to 0",
     idempotencyStatus |-> "-"]

AccountNotFound(which) ==
    [exception |-> "NotFoundException", message |-> which,
     idempotencyStatus |-> "-"]

InsufficientBalance ==
    [exception |-> "BadRequestException", message |-> "Insufficient balance",
     idempotencyStatus |-> "-"]

IdempotencyConflict ==
    [exception |-> "ConflictException", message |-> "IDEMPOTENCY_IN_PROGRESS",
     idempotencyStatus |-> "PROCESSING"]

\* an error of the store other than P2002
StorageError ==
    [exception |-> "PrismaClientError", message |-> "storage error",
     idempotencyStatus |-> "-"]

\* the error of the store for a value that does not fit its column
ValueOutOfRange ==
    [exception |-> "PrismaClientError", message |-> "integer out of range",
     idempotencyStatus |-> "-"]

ZeroDelta == [a \in Accounts |-> 0]

IdleCall ==
    [pc |-> "idle", actor |-> "-", key |-> "-", kind |-> "-",
     from |-> "-", to |-> "-", amount |-> 0,
     rows |-> {}, record |-> NoRecord, delta |-> ZeroDelta, locks |-> {},
     outcome |-> NoOutcome, result |-> <<>>, at |-> "-"]

\* ------------------------------------------------------------------ state
VARIABLES
    balance,    \* committed Account.balanceCents
    txRows,     \* committed rows of table "Transaction"
    idem,       \* committed rows of table "IdempotencyRecord", by (userId, key)
    calls,      \* the requests: position, arguments, open transaction
    accountRows \* committed rows of table "Account": type, or NoAccount

vars == <<balance, txRows, idem, calls, accountRows>>

Init ==
    /\ balance = [a \in Accounts |-> InitBalance]
    /\ txRows = {}
    /\ idem = [uk \in Users \X Keys |-> NoRecord]
    /\ calls = [c \in Calls |-> IdleCall]
    /\ accountRows = [a \in Accounts |-> "CHECKING"]

\* the call leaves the service: its transaction and its locals are gone;
\* what stays is who called, with which key, which operation on which
\* account, what came back, and `at`, the place it returned or threw from;
\* a call refused for its amount also keeps the amount it asked for and the
\* account it was to go to
Finish(c, outcome, result) ==
    [calls[c] EXCEPT !.pc = "done",
                     !.to = IF outcome = InsufficientBalance
                            THEN calls[c].to ELSE "-",
                     !.amount = IF outcome = InsufficientBalance
                                THEN calls[c].amount ELSE 0,
                     !.rows = {}, !.record = NoRecord,
                     !.delta = ZeroDelta, !.locks = {},
                     !.outcome = outcome, !.result = result,
                     !.at = IF outcome = StorageError THEN "transaction"
                            ELSE calls[c].pc]

\* the statements were not in one transaction: the writes made so far stay
RollbackKeepsWrites(c, err) ==
    /\ calls' = [calls EXCEPT ![c] = Finish(c, err, <<>>)]
    /\ balance' = [a \in Accounts |-> balance[a] + calls[c].delta[a]]
    /\ txRows' = txRows \cup calls[c].rows
    /\ UNCHANGED <<idem, accountRows>>

\* the PROCESSING row was inserted outside the transaction and stays behind
RollbackLeavesRecord(c, err) ==
    /\ calls' = [calls EXCEPT ![c] = Finish(c, err, <<>>)]
    /\ idem' = [idem EXCEPT ![<<calls[c].actor, calls[c].key>>] =
                                                        calls[c].record]
    /\ UNCHANGED <<balance, txRows, accountRows>>

\* the failure is stored as the result of the key, like a success
RollbackCachesFailure(c, err) ==
    /\ calls' = [calls EXCEPT ![c] = Finish(c, err, <<>>)]
    /\ idem' = [idem EXCEPT ![<<calls[c].actor, calls[c].key>>] =
                                                  CompletedRecord(<<err>>)]
    /\ UNCHANGED <<balance, txRows, accountRows>>

\* the transaction of call c is rolled back and the error reaches the caller
Rollback(c, err) ==
    /\ calls' = [calls EXCEPT ![c] = Finish(c, err, <<>>)]
    /\ UNCHANGED <<balance, txRows, idem, accountRows>>

InTransaction(c) ==
    calls[c].pc \in {"findFrom", "findTo", "createFrom", "createTo",
                     "updateFrom", "updateTo", "findAccount", "createLeg",
                     "updateAccount", "idemUpdate", "commit"}

\* one lock for the whole Account table instead of one per row
TableLockFree(c, a) == \A d \in Calls \ {c} : calls[d].locks = {}

\* row lock of account a is free for call c
LockFree(c, a) == \A d \in Calls \ {c} : a \notin calls[d].locks

\* ------------------------------------------------------- public mutations
\* Requests arrive in the order of their numbers.  Users with their
\* accounts, and keys, are interchangeable in Init, so the first request is
\* taken to be u1's and not to carry k2: every other run is a renaming of one
\* of these.
\* the request is handed to withIdempotency without being validated
EnterUnvalidated(c, u, rawKey, kind, from, to, amount, invalid) ==
    /\ calls[c].pc = "idle"
    /\ \A d \in Calls : d < c => calls[d].pc # "idle"
    /\ c = 1 => u = "u1" /\ rawKey # "k2"
    /\ Trim(rawKey) # ""
    /\ calls' = [calls EXCEPT ![c] =
          [IdleCall EXCEPT !.actor = u, !.key = Trim(rawKey), !.kind = kind,
                           !.pc = "findExisting", !.from = from, !.to = to,
                           !.amount = amount]]
    /\ UNCHANGED <<balance, txRows, idem, accountRows>>

Enter(c, u, rawKey, kind, from, to, amount, invalid) ==
    /\ calls[c].pc = "idle"
    /\ \A d \in Calls : d < c => calls[d].pc # "idle"
    /\ c = 1 => u = "u1" /\ rawKey # "k2"
    /\ LET started == [IdleCall EXCEPT !.actor = u, !.key = Trim(rawKey),
                                       !.kind = kind]
       IN  calls' = [calls EXCEPT ![c] =
             IF Trim(rawKey) = ""
             THEN [started EXCEPT !.pc = "done", !.outcome = KeyRequired,
                                  !.at = "validate"]
             ELSE IF invalid # NoOutcome
             THEN [started EXCEPT !.pc = "done", !.outcome = invalid,
                                  !.at = "validate"]
             ELSE [started EXCEPT !.pc = "findExisting", !.from = from,
                                  !.to = to, !.amount = amount]]
    /\ UNCHANGED <<balance, txRows, idem, accountRows>>

createTransfer(c) ==
    \E u \in Users, k \in RawKeys, f \in AccountIds, t \in AccountIds, n \in Amounts :
        Enter(c, u, k, "TRANSFER", f, t, n,
              IF f = t THEN SameAccount
              ELSE IF n <= 0 THEN AmountNotPositive ELSE NoOutcome)

createDeposit(c) ==
    \E u \in Users, k \in RawKeys, a \in AccountIds, n \in Amounts :
        Enter(c, u, k, "DEPOSIT", a, a, n,
              IF n <= 0 THEN AmountNotPositive ELSE NoOutcome)

createWithdrawal(c) ==
    \E u \in Users, k \in RawKeys, a \in AccountIds, n \in Amounts :
        Enter(c, u, k, "WITHDRAWAL", a, a, n,
              IF n <= 0 THEN AmountNotPositive ELSE NoOutcome)

\* ------------------------------------------------------ withIdempotency
\* what a reader of a record does with it: replay, conflict, or go on
\* the lookup does not recognise a completed record
ReplayNever(rec) == FALSE

ReplayOf(rec) == rec.status = "COMPLETED" /\ rec.responsePayload # <<>>

FindExisting(c) ==
    /\ calls[c].pc = "findExisting"
    /\ LET existing == idem[<<calls[c].actor, calls[c].key>>]
       IN  calls' = [calls EXCEPT ![c] =
             IF ReplayOf(existing)
             THEN Finish(c, Returned("COMPLETED"), existing.responsePayload)
             ELSE IF existing.status = "PROCESSING"
             THEN Finish(c, IdempotencyConflict, <<>>)
             ELSE [@ EXCEPT !.pc = "idemCreate"]]
    /\ UNCHANGED <<balance, txRows, idem, accountRows>>

\* no unique index on (userId, idempotencyKey): the insert never fails
UniqueViolationMissed(c) == FALSE

\* a unique index on idempotencyKey alone: keys shared by all actors
UniqueViolationAnyActor(c) ==
    \E u \in Users : idem[<<u, calls[c].key>>] # NoRecord

\* unique index IdempotencyRecord_userId_idempotencyKey_key
UniqueViolation(c) == idem[<<calls[c].actor, calls[c].key>>] # NoRecord

\* no unique index on (userId, idempotencyKey): the insert never waits
UniqueWaitNever(c) == FALSE

UniqueWait(c) ==
    \E d \in Calls \ {c} :
        /\ calls[d].record # NoRecord
        /\ calls[d].actor = calls[c].actor
        /\ calls[d].key = calls[c].key

FirstWorkerStep(kind) == IF kind = "TRANSFER" THEN "findFrom" ELSE "findAccount"

IdempotencyCreate(c) ==
    /\ calls[c].pc = "idemCreate"
    /\ ~UniqueWait(c)
    /\ calls' = [calls EXCEPT ![c] =
          IF UniqueViolation(c)
          THEN [@ EXCEPT !.pc = "reread"]
          ELSE [@ EXCEPT !.pc = FirstWorkerStep(calls[c].kind),
                         !.record = ProcessingRecord]]
    /\ UNCHANGED <<balance, txRows, idem, accountRows>>

\* the update to COMPLETED is not part of the unit of work: the record is
\* committed as it was inserted
IdempotencyUpdateLeftOut(c) ==
    /\ calls[c].pc = "idemUpdate"
    /\ calls' = [calls EXCEPT ![c].pc = "commit"]
    /\ UNCHANGED <<balance, txRows, idem, accountRows>>

IdempotencyUpdate(c) ==
    /\ calls[c].pc = "idemUpdate"
    /\ calls' = [calls EXCEPT ![c].pc = "commit",
                              ![c].record = CompletedRecord(calls[c].result)]
    /\ UNCHANGED <<balance, txRows, idem, accountRows>>

\* the balance updates of the transaction are lost
CommittedBalanceUnchanged(c) == balance

\* the balance is written as a value, the opening balance the call read plus
\* its own amounts, instead of being incremented in the row
CommittedBalanceStale(c) ==
    [a \in Accounts |-> IF calls[c].delta[a] # 0
                        THEN InitBalance + calls[c].delta[a]
                        ELSE balance[a]]

\* COMMIT: every write of the transaction reaches the store together
CommittedBalance(c) == [a \in Accounts |-> balance[a] + calls[c].delta[a]]

\* the legs are not part of the commit that stores the record
CommittedRowsLeftOut(c) == txRows

CommittedRows(c) == txRows \cup calls[c].rows

Commit(c) ==
    /\ calls[c].pc = "commit"
    /\ balance' = CommittedBalance(c)
    /\ txRows' = CommittedRows(c)
    /\ idem' = [idem EXCEPT ![<<calls[c].actor, calls[c].key>>] = calls[c].record]
    /\ calls' = [calls EXCEPT ![c] = Finish(c, Returned("CREATED"), calls[c].result)]
    /\ UNCHANGED accountRows

\* the loser of the race does not look at the status it re-read
RereadAlwaysConflicts(c) ==
    /\ calls[c].pc = "reread"
    /\ calls' = [calls EXCEPT ![c] = Finish(c, IdempotencyConflict, <<>>)]
    /\ UNCHANGED <<balance, txRows, idem, accountRows>>

RereadAfterConflict(c) ==
    /\ calls[c].pc = "reread"
    /\ LET record == idem[<<calls[c].actor, calls[c].key>>]
       IN  calls' = [calls EXCEPT ![c] =
             IF ReplayOf(record)
             THEN Finish(c, Returned("COMPLETED"), record.responsePayload)
             ELSE Finish(c, IdempotencyConflict, <<>>)]
    /\ UNCHANGED <<balance, txRows, idem, accountRows>>

\* a statement of the open transaction fails in the store (connection lost,
\* deadlock victim, ...): Prisma rolls back and the error is rethrown
StorageFailure(c) ==
    /\ InTransaction(c)
    /\ Rollback(c, StorageError)

\* ---------------------------------------------------------------- workers
\* findUnique by id alone, without the userId of the caller
OwnedByAnyone(a, u) == a \in Accounts /\ accountRows[a] # NoAccount

\* table "Account" has a row with this id
AccountExists(a) == a \in Accounts /\ accountRows[a] # NoAccount

OwnedBy(a, u) == AccountExists(a) /\ Owner[a] = u

\* table "Transaction" without the foreign key: any accountId can be inserted
ForeignKeyUnchecked(a) == FALSE

\* Transaction_accountId_fkey: a leg cannot be inserted on an account whose
\* row is gone; the insert fails and the call ends in StorageFailure
ForeignKeyViolation(a) == ~AccountExists(a)

\* "balanceCents" INTEGER: the largest value of the column
IntegerMax == 2147483647

\* old + n does not fit a column of type INTEGER (written without forming
\* a number above IntegerMax)
IntegerOutOfRange(old, n) ==
    \/ n > 0 /\ old > IntegerMax - n
    \/ n < 0 /\ old < (-IntegerMax - 1) - n

\* balanceCents of account a as the transaction of call c sees it: the
\* committed row, which it has locked, and its own updates
Current(c, a) == balance[a] + calls[c].delta[a]

\* the debit leg written with the sign of the credit leg
DebitLegPositive(amountCents) == amountCents

\* amountCents of the two legs of a transfer
DebitLegAmount(amountCents) == -amountCents

CreditLegAmount(amountCents) == amountCents

\* the to-account is looked up before the balance of the from-account is
\* tested
FindFromAccountToFirst(c) ==
    /\ calls[c].pc = "findFrom"
    /\ IF ~OwnedBy(calls[c].from, calls[c].actor)
       THEN Rollback(c, AccountNotFound("From account not found"))
       ELSE IF ~AccountExists(calls[c].to)
       THEN Rollback(c, AccountNotFound("To account not found"))
       ELSE IF balance[calls[c].from] < calls[c].amount
       THEN Rollback(c, InsufficientBalance)
       ELSE /\ calls' = [calls EXCEPT ![c].pc = "findTo"]
            /\ UNCHANGED <<balance, txRows, idem, accountRows>>

FindFromAccount(c) ==
    /\ calls[c].pc = "findFrom"
    /\ IF ~OwnedBy(calls[c].from, calls[c].actor)
       THEN Rollback(c, AccountNotFound("From account not found"))
       ELSE IF balance[calls[c].from] < calls[c].amount
       THEN Rollback(c, InsufficientBalance)
       ELSE /\ calls' = [calls EXCEPT ![c].pc = "findTo"]
            /\ UNCHANGED <<balance, txRows, idem, accountRows>>

FindToAccount(c) ==
    /\ calls[c].pc = "findTo"
    /\ IF ~AccountExists(calls[c].to)
       THEN Rollback(c, AccountNotFound("To account not found"))
       ELSE /\ calls' = [calls EXCEPT ![c].pc = "createFrom"]
            /\ UNCHANGED <<balance, txRows, idem, accountRows>>

CreateFromTransaction(c) ==
    /\ calls[c].pc = "createFrom"
    /\ ~ForeignKeyViolation(calls[c].from)
    /\ calls' = [calls EXCEPT
          ![c].pc = "createTo",
          ![c].rows = @ \cup {TransactionRow(c, "from", calls[c].from,
                                 DebitLegAmount(calls[c].amount), "TRANSFER")}]
    /\ UNCHANGED <<balance, txRows, idem, accountRows>>

CreateToTransaction(c) ==
    /\ calls[c].pc = "createTo"
    /\ ~ForeignKeyViolation(calls[c].to)
    /\ calls' = [calls EXCEPT
          ![c].pc = "updateFrom",
          ![c].rows = @ \cup {TransactionRow(c, "to", calls[c].to,
                                 CreditLegAmount(calls[c].amount), "TRANSFER")}]
    /\ UNCHANGED <<balance, txRows, idem, accountRows>>

TransferResult(c) ==
    [type |-> "TRANSFER", transferId |-> c,
     transactions |->
        <<toTransactionSummary(TransactionRow(c, "from", calls[c].from,
                                 DebitLegAmount(calls[c].amount), "TRANSFER")),
          toTransactionSummary(TransactionRow(c, "to", calls[c].to,
                                 CreditLegAmount(calls[c].amount), "TRANSFER"))>>]

UpdateFromAccount(c) ==
    /\ calls[c].pc = "updateFrom"
    /\ LockFree(c, calls[c].from)
    /\ IF IntegerOutOfRange(Current(c, calls[c].from), -calls[c].amount)
       THEN Rollback(c, ValueOutOfRange)
       ELSE /\ calls' = [calls EXCEPT
                  ![c].pc = "updateTo",
                  ![c].locks = @ \cup {calls[c].from},
                  ![c].delta[calls[c].from] = @ - calls[c].amount]
            /\ UNCHANGED <<balance, txRows, idem, accountRows>>

UpdateToAccount(c) ==
    /\ calls[c].pc = "updateTo"
    /\ LockFree(c, calls[c].to)
    /\ IF IntegerOutOfRange(Current(c, calls[c].to), calls[c].amount)
       THEN Rollback(c, ValueOutOfRange)
       ELSE /\ calls' = [calls EXCEPT
                  ![c].pc = "idemUpdate",
                  ![c].locks = @ \cup {calls[c].to},
                  ![c].delta[calls[c].to] = @ + calls[c].amount,
                  ![c].result = TransferResult(c)]
            /\ UNCHANGED <<balance, txRows, idem, accountRows>>

doTransfer(c) ==
    \/ FindFromAccount(c)
    \/ FindToAccount(c)
    \/ CreateFromTransaction(c)
    \/ CreateToTransaction(c)
    \/ UpdateFromAccount(c)
    \/ UpdateToAccount(c)

\* every single leg is written as a debit
LegAmountDebit(kind, amount) == -amount

\* amount of the single leg of a deposit / withdrawal
LegAmount(kind, amount) == IF kind = "WITHDRAWAL" THEN -amount ELSE amount

FindAccount(c) ==
    /\ calls[c].pc = "findAccount"
    /\ IF ~OwnedBy(calls[c].from, calls[c].actor)
       THEN Rollback(c, AccountNotFound("Account not found"))
       ELSE IF calls[c].kind = "WITHDRAWAL"
               /\ balance[calls[c].from] < calls[c].amount
       THEN Rollback(c, InsufficientBalance)
       ELSE /\ calls' = [calls EXCEPT ![c].pc = "createLeg"]
            /\ UNCHANGED <<balance, txRows, idem, accountRows>>

CreateLeg(c) ==
    /\ calls[c].pc = "createLeg"
    /\ ~ForeignKeyViolation(calls[c].from)
    /\ calls' = [calls EXCEPT
          ![c].pc = "updateAccount",
          ![c].rows = @ \cup {TransactionRow(c, "leg", calls[c].from,
                                 LegAmount(calls[c].kind, calls[c].amount),
                                 calls[c].kind)}]
    /\ UNCHANGED <<balance, txRows, idem, accountRows>>

LegResult(c) ==
    [type |-> calls[c].kind, transferId |-> c,
     transactions |->
        <<toTransactionSummary(TransactionRow(c, "leg", calls[c].from,
                                 LegAmount(calls[c].kind, calls[c].amount),
                                 calls[c].kind))>>]

UpdateAccount(c) ==
    /\ calls[c].pc = "updateAccount"
    /\ LockFree(c, calls[c].from)
    /\ IF IntegerOutOfRange(Current(c, calls[c].from),
                            LegAmount(calls[c].kind, calls[c].amount))
       THEN Rollback(c, ValueOutOfRange)
       ELSE /\ calls' = [calls EXCEPT
                  ![c].pc = "idemUpdate",
                  ![c].locks = @ \cup {calls[c].from},
                  ![c].delta[calls[c].from] =
                      @ + LegAmount(calls[c].kind, calls[c].amount),
                  ![c].result = LegResult(c)]
            /\ UNCHANGED <<balance, txRows, idem, accountRows>>

doDeposit(c) ==
    /\ calls[c].kind = "DEPOSIT"
    /\ (FindAccount(c) \/ CreateLeg(c) \/ UpdateAccount(c))

doWithdrawal(c) ==
    /\ calls[c].kind = "WITHDRAWAL"
    /\ (FindAccount(c) \/ CreateLeg(c) \/ UpdateAccount(c))

withIdempotency(c) ==
    \/ FindExisting(c)
    \/ IdempotencyCreate(c)
    \/ IdempotencyUpdate(c)
    \/ Commit(c)
    \/ RereadAfterConflict(c)
    \/ StorageFailure(c)

\* -------------------------------------------------------- administration
\* a committed Transaction row points at account a
AccountReferenced(a) == \E r \in txRows : r.accountId = a

\* an open transaction holds a lock on the row of account a: the key-share
\* lock of a leg it inserted or the lock of its balance update
AccountPinned(a) ==
    \E c \in Calls : \/ a \in calls[c].locks
                     \/ \E r \in calls[c].rows : r.accountId = a

\* Transaction_accountId_fkey declared ON DELETE CASCADE: the legs go with
\* the account
DeleteAccountRowsCascade(S) ==
    /\ \A a \in S : ~AccountPinned(a)
    /\ accountRows' = [a \in Accounts |->
                          IF a \in S THEN NoAccount ELSE accountRows[a]]
    /\ txRows' = {r \in txRows : r.accountId \notin S}
    /\ UNCHANGED <<balance, idem, calls>>

\* DELETE of the Account rows S, one statement: it waits for the open
\* transactions that hold these rows, and Transaction_accountId_fkey
\* (ON DELETE RESTRICT) makes it fail as a whole when a leg points at one
DeleteAccountRows(S) ==
    /\ \A a \in S : ~AccountPinned(a)
    /\ IF \E a \in S : AccountReferenced(a)
       THEN UNCHANGED vars
       ELSE /\ accountRows' = [a \in Accounts |->
                                 IF a \in S THEN NoAccount ELSE accountRows[a]]
            /\ UNCHANGED <<balance, txRows, idem, calls>>

\* AccountsService.deleteAccount, by an admin
deleteAccount(a) ==
    /\ AccountExists(a)
    /\ DeleteAccountRows({a})

\* UsersService.deleteUser, by an admin: Account_userId_fkey cascades the
\* delete to the accounts of the user
deleteUser(u) ==
    /\ \E a \in Accounts : AccountExists(a) /\ Owner[a] = u
    /\ DeleteAccountRows({a \in Accounts : AccountExists(a) /\ Owner[a] = u})

\* the accounts that account updates are sent for
UpdatedAccounts == {"a1"}

\* who may send an account update: a user, or an admin
Requesters == Users \cup {"admin"}

\* AuthorizationService.isAdmin
isAdmin(r) == r = "admin"

\* request bodies of PATCH /accounts/:id: a type, and a balanceCents the
\* caller slipped in
UpdateAccountDtos == {[type |-> t, balanceCents |-> 0] : t \in AccountTypes}

\* the request body is handed to the update as it came
resolveUpdateDataWhole(dto) == dto

\* the fields of the body that reach the update: name and type, picked one
\* by one (the name of an account is not part of the model)
resolveUpdateData(dto) == [type |-> dto.type]

\* prisma.account.update({ where, data }), one statement
performAccountUpdate(a, data) ==
    /\ \A c \in Calls : a \notin calls[c].locks
    /\ accountRows' = [accountRows EXCEPT ![a] = data.type]
    /\ balance' = IF "balanceCents" \in DOMAIN data
                  THEN [balance EXCEPT ![a] = data.balanceCents]
                  ELSE balance
    /\ UNCHANGED <<txRows, idem, calls>>

\* AccountsService.updateAccount: an admin updates any account, a user an
\* account of their own (an update of another user's account, or to the
\* type the row already has, is left out: it changes nothing)
updateAccount(r, a, dto) ==
    /\ AccountExists(a)
    /\ isAdmin(r) \/ Owner[a] = r
    /\ accountRows[a] # dto.type
    /\ performAccountUpdate(a, resolveUpdateData(dto))

Next ==
    \E c \in Calls :
        \/ createTransfer(c)
        \/ createDeposit(c)
        \/ createWithdrawal(c)
        \/ withIdempotency(c)
        \/ doTransfer(c)
        \/ doDeposit(c)
        \/ doWithdrawal(c)

\* the money movements on a fixed set of accounts
Spec == Init /\ [][Next]_vars

\* tx.transaction.create fails with P2002 on Transaction_pkey: the id
\* generated for the new row is the id of a row already in the table.  Prisma
\* rolls the transaction back, and the catch of withIdempotency, which looks
\* at the error code only, goes on to read the record of the key again
TransactionPkeyViolation(c) ==
    /\ calls[c].pc \in {"createFrom", "createTo", "createLeg"}
    /\ txRows # {}
    /\ calls' = [calls EXCEPT ![c] =
          [@ EXCEPT !.pc = "reread", !.rows = {}, !.record = NoRecord,
                    !.delta = ZeroDelta, !.locks = {}]]
    /\ UNCHANGED <<balance, txRows, idem, accountRows>>

\* the money movements together with the administration of accounts and users
NextWithAdministration ==
    \/ Next
    \/ \E a \in Accounts : deleteAccount(a)
    \/ \E u \in Users : deleteUser(u)
    \/ \E r \in Requesters, a \in UpdatedAccounts, dto \in UpdateAccountDtos :
          updateAccount(r, a, dto)

SpecWithAdministration == Init /\ [][NextWithAdministration]_vars

\* the statements of call c, which the runtime and the store carry out as
\* soon as nothing makes them wait
Progress(c) ==
    \/ FindExisting(c)
    \/ IdempotencyCreate(c)
    \/ IdempotencyUpdate(c)
    \/ Commit(c)
    \/ RereadAfterConflict(c)
    \/ doTransfer(c)
    \/ doDeposit(c)
    \/ doWithdrawal(c)

\* the balance update call c is about to make waits for a row lock of call d
WaitsFor(c, d) ==
    /\ c # d
    /\ \/ calls[c].pc \in {"updateFrom", "updateAccount"}
          /\ calls[c].from \in calls[d].locks
       \/ calls[c].pc = "updateTo" /\ calls[c].to \in calls[d].locks

\* the store has no deadlock detection
DeadlockNeverDetected(c) == FALSE

\* PostgreSQL's deadlock detection: call c is in a cycle of lock waits
DeadlockDetected(c) == \E d \in Calls : WaitsFor(c, d) /\ WaitsFor(d, c)

\* the store ends a deadlock by failing the waiting statement of one of its
\* transactions: the StorageFailure of a deadlock victim
DeadlockVictim(c) ==
    /\ DeadlockDetected(c)
    /\ StorageFailure(c)

\* the money movements, with every statement carried out when it can be and
\* every deadlock ended by the store
FairSpec ==
    /\ Spec
    /\ \A c \in Calls : WF_vars(Progress(c)) /\ WF_vars(DeadlockVictim(c))

\* what the caller has of a call whose process went down: no answer
Crashed ==
    [exception |-> "none returned", message |-> "process exited",
     idempotencyStatus |-> "-"]

\* the PROCESSING insert was committed on its own before the process went down
CrashLeavesRecord(c) ==
    /\ InTransaction(c)
    /\ RollbackLeavesRecord(c, Crashed)

\* the process serving call c goes down while the transaction opened by
\* prisma.$transaction is open: the connection closes, PostgreSQL aborts the
\* transaction, nothing of it was committed, and the caller gets no answer
Crash(c) ==
    /\ InTransaction(c)
    /\ Rollback(c, Crashed)

\* the money movements, served by processes that can go down
NextWithCrashes ==
    \/ Next
    \/ \E c \in Calls : Crash(c)

SpecWithCrashes == Init /\ [][NextWithCrashes]_vars

\* accounts that hold InitBalance less than the largest value of the column
InitNearIntegerMax ==
    /\ balance = [a \in Accounts |-> IntegerMax - InitBalance]
    /\ txRows = {}
    /\ idem = [uk \in Users \X Keys |-> NoRecord]
    /\ calls = [c \in Calls |-> IdleCall]
    /\ accountRows = [a \in Accounts |-> "CHECKING"]

\* the money movements on accounts with balances near 2^31
SpecNearIntegerMax == InitNearIntegerMax /\ [][Next]_vars

\* the money movements, with generated row ids that can collide
NextWithIdCollisions ==
    \/ Next
    \/ \E c \in Calls : TransactionPkeyViolation(c)

SpecWithIdCollisions == Init /\ [][NextWithIdCollisions]_vars

\* ------------------------------------------------------ derived notions
KeyOf(c) == <<calls[c].actor, calls[c].key>>

Done(c) == calls[c].pc = "done"

Created(c) == Done(c) /\ calls[c].outcome = Returned("CREATED")

Replayed(c) == Done(c) /\ calls[c].outcome = Returned("COMPLETED")

Failed(c) == Done(c) /\ calls[c].outcome.exception # "none"

\* the committed Transaction rows written by call c (transferId is per call)
RowsOf(c) == {r \in txRows : r.transferId = c}

RowsOn(a) == {r \in txRows : r.accountId = a}

RECURSIVE SumAmounts(_)
SumAmounts(S) ==
    IF S = {} THEN 0
    ELSE LET r == CHOOSE x \in S : TRUE
         IN  r.amountCents + SumAmounts(S \ {r})

\* balance and rows agree: every balance is its opening value plus its legs
LedgerConsistent ==
    \A a \in Accounts : balance[a] = InitBalance + SumAmounts(RowsOn(a))

\* ------------------------------------------------------------------ C1
\* C1: for every (actor, key), whatever the interleaving of the calls that
\* carry it, at most one operation commits: the committed Transaction rows
\* written under that key share one transferId, the balances moved by exactly
\* the committed rows, and at most one call returned CREATED.
AtMostOncePerKey ==
    /\ \A uk \in Users \X Keys :
          /\ Cardinality({c \in Calls : KeyOf(c) = uk /\ RowsOf(c) # {}}) <= 1
          /\ Cardinality({c \in Calls : KeyOf(c) = uk /\ Created(c)}) <= 1
    /\ LedgerConsistent

\* two calls with one (actor, key) collided: one committed, the other lost
\* the insert after having passed the first lookup
SameKeyCollision ==
    \E c, d \in Calls :
        /\ c # d /\ KeyOf(c) = KeyOf(d)
        /\ Created(c) /\ RowsOf(c) # {}
        /\ calls[d].pc = "reread"

\* ------------------------------------------------------------------ C2
\* C2: in every committed state every account has balanceCents >= 0, also
\* when two debits with different keys run concurrently on one account.
BalancesNonNegative == \A a \in Accounts : balance[a] >= 0

\* ------------------------------------------------------------------ C3
\* C3: a transfer is atomic for every reader of the committed store: either
\* both legs are there and the balances carry them, or none is; a call that
\* failed, at whatever statement, left no row and no balance change.
TransferAtomic ==
    /\ \A r \in txRows :
          r.type = "TRANSFER" =>
              \E t \in txRows : /\ t.transferId = r.transferId
                                /\ t.id # r.id
                                /\ t.type = "TRANSFER"
                                /\ t.amountCents = -r.amountCents
    /\ LedgerConsistent
    /\ \A c \in Calls : Failed(c) => RowsOf(c) = {}

\* one transfer was aborted by a storage error and left nothing, another one
\* has both legs inserted and its from-account debited inside its open
\* transaction, and the store shows neither
TransferHalfDoneUnseen ==
    \E c, d \in Calls :
        /\ Failed(c) /\ calls[c].outcome = StorageError
        /\ calls[c].kind = "TRANSFER"
        /\ calls[d].pc = "updateTo" /\ Cardinality(calls[d].rows) = 2
        /\ calls[d].delta[calls[d].from] < 0
        /\ txRows = {}
        /\ \A a \in Accounts : balance[a] = InitBalance

\* ------------------------------------------------------------------ C4
\* C4: once a call with (actor, key) has committed, a later call with that
\* (actor, key), whatever its valid payload, is answered at the first lookup:
\* it returns the stored result, which is the result the committing call
\* returned, without running the operation and without touching any
\* Transaction row, balance or record.
ReplayServesFirstResult ==
    [][\A c \in Calls :
         (/\ calls[c].pc = "findExisting"
          /\ idem[KeyOf(c)].status = "COMPLETED"
          /\ calls'[c] # calls[c])
         => /\ calls'[c].pc = "done"
            /\ calls'[c].outcome = Returned("COMPLETED")
            /\ calls'[c].result = idem[KeyOf(c)].responsePayload
            /\ \E d \in Calls \ {c} : /\ Created(d) /\ KeyOf(d) = KeyOf(c)
                                      /\ calls[d].result = calls'[c].result
            /\ UNCHANGED <<balance, txRows, idem>>]_vars

\* a completed key was reused with another operation kind and replayed
ReplayWithOtherPayload ==
    \E c, d \in Calls :
        /\ Created(c) /\ Replayed(d) /\ KeyOf(c) = KeyOf(d)
        /\ calls[d].at = "findExisting"
        /\ calls[d].kind # calls[c].kind
        /\ calls[d].result = calls[c].result
        /\ Cardinality(txRows) = 1

\* ------------------------------------------------------------------ C5
BusinessErrors ==
    {InsufficientBalance, AccountNotFound("From account not found"),
     AccountNotFound("To account not found"),
     AccountNotFound("Account not found")}

\* C5: when the operation fails with AccountNotFound or InsufficientBalance
\* the unit of work rolls back as a whole: no Transaction row of the call, no
\* IdempotencyRecord for its (actor, key), committed or pending, and no
\* balance change; the key is free for a fresh attempt.
BusinessFailureRollsBack ==
    [][\A c \in Calls :
         (/\ calls[c].pc # "done" /\ calls'[c].pc = "done"
          /\ calls'[c].outcome \in BusinessErrors)
         => /\ UNCHANGED <<balance, txRows, idem>>
            /\ idem'[KeyOf(c)] = NoRecord
            /\ \A d \in Calls :
                  KeyOf(d) = KeyOf(c) => calls'[d].record = NoRecord
            /\ {r \in txRows' : r.transferId = c} = {}]_vars

\* a key whose first attempt failed on the balance was retried and CREATED
RetryAfterBusinessFailure ==
    \E c, d \in Calls :
        /\ c < d /\ KeyOf(c) = KeyOf(d)
        /\ Done(c) /\ calls[c].outcome = InsufficientBalance
        /\ Created(d) /\ RowsOf(d) # {}
        /\ idem[KeyOf(d)].status = "COMPLETED"

\* ------------------------------------------------------------------ C6
\* C6: of the calls racing on one (actor, key) exactly one holds the
\* PROCESSING insert; a call whose insert hit the uniqueness violation holds
\* no write of the operation, re-reads the record and returns the stored
\* result as a replay when it is COMPLETED, Conflict(IN_PROGRESS) otherwise.
RaceLoserReplaysOrConflicts ==
    [][\A c \in Calls :
         /\ (calls'[c].record # NoRecord =>
                /\ idem'[KeyOf(c)] = NoRecord
                /\ \A d \in Calls \ {c} :
                      KeyOf(d) = KeyOf(c) => calls'[d].record = NoRecord)
         /\ (calls'[c].pc = "reread" =>
                /\ calls'[c].rows = {} /\ calls'[c].record = NoRecord
                /\ calls'[c].delta = ZeroDelta /\ calls'[c].locks = {}
                /\ idem'[KeyOf(c)] # NoRecord)
         /\ (calls[c].pc = "reread" /\ calls'[c] # calls[c] =>
                /\ UNCHANGED <<balance, txRows, idem>>
                /\ calls'[c].pc = "done"
                /\ IF idem[KeyOf(c)].status = "COMPLETED"
                   THEN /\ calls'[c].outcome = Returned("COMPLETED")
                        /\ calls'[c].result = idem[KeyOf(c)].responsePayload
                   ELSE calls'[c].outcome = IdempotencyConflict)]_vars

\* the loser of a race was served the winner's result after its re-read
RaceLoserReplayed ==
    \E c, d \in Calls :
        /\ c # d /\ KeyOf(c) = KeyOf(d)
        /\ Created(c) /\ Replayed(d)
        /\ calls[d].at = "reread"
        /\ calls[d].result = calls[c].result
        /\ RowsOf(d) = {}

\* ------------------------------------------------------------------ C7
Debits == {"WITHDRAWAL", "TRANSFER"}

\* C7: a withdrawal or transfer whose amount exceeds the balance of the
\* debited account fails with InsufficientBalance and changes nothing (no
\* Transaction row, no balance, no IdempotencyRecord), so a debit that
\* commits never exceeds the balance it is taken from; a debit equal to the
\* balance passes the check and leaves the balance at 0.
DebitWithinBalance ==
    [][\A c \in Calls :
         LET a == calls[c].from
             n == calls[c].amount
         IN  /\ (/\ calls[c].pc \in {"findFrom", "findAccount"}
                 /\ calls[c].kind \in Debits
                 /\ a \in Accounts /\ Owner[a] = calls[c].actor
                 /\ calls'[c] # calls[c]
                 /\ calls'[c].outcome # StorageError)
                => IF n > balance[a]
                   THEN /\ calls'[c].pc = "done"
                        /\ calls'[c].outcome = InsufficientBalance
                        /\ UNCHANGED <<balance, txRows, idem>>
                        /\ idem'[KeyOf(c)] = NoRecord
                        /\ calls'[c].record = NoRecord
                   ELSE calls'[c].pc # "done"
             /\ (/\ calls[c].pc = "commit"
                 /\ calls[c].kind \in Debits
                 /\ calls'[c].outcome = Returned("CREATED"))
                => /\ n <= balance[a]
                   /\ (n = balance[a] => balance'[a] = 0)]_vars

\* ------------------------------------------------------------------ C8
\* C8: a transfer of amount n from F to T that commits adds exactly two
\* Transaction rows under one new transferId, -n on F and +n on T, both of
\* type TRANSFER and status COMPLETED, takes exactly n from F's balance and
\* adds exactly n to T's, so that the sum of the two is unchanged; T need not
\* belong to the caller.
TransferMovesAmount ==
    [][\A c \in Calls :
         (/\ calls[c].pc = "commit"
          /\ calls[c].kind = "TRANSFER"
          /\ calls'[c].outcome = Returned("CREATED"))
         => LET F == calls[c].from
                T == calls[c].to
                n == calls[c].amount
                new == txRows' \ txRows
            IN  /\ txRows \subseteq txRows'
                /\ Cardinality(new) = 2
                /\ \A r \in new : /\ r.transferId = c
                                  /\ r.type = "TRANSFER"
                                  /\ r.status = "COMPLETED"
                /\ \A r \in txRows : r.transferId # c
                /\ \E r \in new : r.accountId = F /\ r.amountCents = -n
                /\ \E r \in new : r.accountId = T /\ r.amountCents = n
                /\ balance'[F] = balance[F] - n
                /\ balance'[T] = balance[T] + n
                /\ balance'[F] + balance'[T] = balance[F] + balance[T]
                /\ \A x \in Accounts \ {F, T} : balance'[x] = balance[x]]_vars

\* a committed transfer whose credit leg is on another actor's account
TransferToOtherActor ==
    \E c \in Calls :
        /\ Created(c) /\ calls[c].kind = "TRANSFER"
        /\ Cardinality(RowsOf(c)) = 2
        /\ \E r \in RowsOf(c) :
              /\ r.amountCents > 0
              /\ Owner[r.accountId] # calls[c].actor
              /\ balance[r.accountId] = InitBalance + r.amountCents

\* ------------------------------------------------------------------ C9
\* the record of (actor, key) as the store holds it: the committed row, or
\* the uncommitted row of the transaction that inserted it
RecordOf(uk) ==
    IF idem[uk] # NoRecord THEN idem[uk]
    ELSE IF \E c \in Calls : KeyOf(c) = uk /\ calls[c].record # NoRecord
    THEN LET holder == CHOOSE c \in Calls :
                           KeyOf(c) = uk /\ calls[c].record # NoRecord
         IN  calls[holder].record
    ELSE NoRecord

\* C9: a record never goes from COMPLETED back to PROCESSING, it is never
\* created COMPLETED, and once a COMPLETED record is committed neither its
\* status nor its stored result changes, whatever calls follow.
RecordNeverGoesBack ==
    [][\A uk \in Users \X Keys :
         /\ (idem[uk].status = "COMPLETED" => idem'[uk] = idem[uk])
         /\ ~(RecordOf(uk).status = "COMPLETED"
              /\ RecordOf(uk)'.status = "PROCESSING")
         /\ (RecordOf(uk).status = "ABSENT"
              => RecordOf(uk)'.status \in {"ABSENT", "PROCESSING"})
         /\ idem'[uk].status # "PROCESSING"]_vars

\* a COMPLETED record is in the store while a second call with its key,
\* which passed the lookup before the commit, is about to insert
CompletedRecordChallenged ==
    \E c, d \in Calls :
        /\ c # d /\ KeyOf(c) = KeyOf(d)
        /\ Created(c) /\ idem[KeyOf(c)].status = "COMPLETED"
        /\ idem[KeyOf(c)].responsePayload = calls[c].result
        /\ calls[d].pc = "idemCreate"

\* ----------------------------------------------------------------- C10
\* C10: deposit, withdrawal and the debit side of a transfer act only on an
\* account of the caller: on an absent account id or another actor's account
\* the call fails with AccountNotFound and changes nothing, and a balance
\* only ever decreases by the commit of a call of the account's owner.
OnlyOwnerDebits ==
    [][/\ \A c \in Calls :
            (/\ calls[c].pc \in {"findFrom", "findAccount"}
             /\ (calls[c].from \notin Accounts
                   \/ Owner[calls[c].from] # calls[c].actor)
             /\ calls'[c] # calls[c]
             /\ calls'[c].outcome # StorageError)
            => /\ calls'[c].pc = "done"
               /\ calls'[c].outcome.exception = "NotFoundException"
               /\ UNCHANGED <<balance, txRows, idem>>
               /\ calls'[c].record = NoRecord
       /\ \A a \in Accounts :
            balance'[a] < balance[a] =>
               \E c \in Calls : /\ calls[c].pc = "commit"
                                /\ calls'[c].pc = "done"
                                /\ calls[c].actor = Owner[a]
                                /\ calls[c].from = a
       /\ \A r \in txRows' \ txRows :
            r.type \in {"DEPOSIT", "WITHDRAWAL"} \/ r.amountCents < 0
               => Owner[r.accountId] = calls[r.transferId].actor]_vars

\* an actor tried to withdraw from another actor's account and was refused,
\* the account still holding its opening balance
ForeignDebitRefused ==
    \E c \in Calls :
        /\ Done(c) /\ calls[c].kind = "WITHDRAWAL"
        /\ calls[c].from \in Accounts
        /\ Owner[calls[c].from] # calls[c].actor
        /\ calls[c].outcome = AccountNotFound("Account not found")
        /\ balance[calls[c].from] = InitBalance
        /\ txRows = {}

\* ----------------------------------------------------------------- C11
\* C11: idempotency keys are scoped per actor.  While another actor A holds
\* a COMPLETED record for key k, every step of a call of actor B carrying k
\* leaves A's record as it is and never hands out A's stored result; when B
\* has no record of its own for k the call runs fresh: the lookup goes on to
\* the insert, the insert succeeds and starts the operation, and the call
\* ends with CREATED or with an error of its own, never with a replay or with
\* Conflict(IN_PROGRESS).
KeysScopedPerActor ==
    [][\A c \in Calls :
         LET k == calls[c].key
             B == calls[c].actor
             others == {A \in Users \ {B} :
                           k \in Keys /\ idem[<<A, k>>].status = "COMPLETED"}
         IN  (others # {} /\ calls'[c] # calls[c])
             => /\ \A A \in others :
                      /\ idem'[<<A, k>>] = idem[<<A, k>>]
                      /\ calls'[c].result # idem[<<A, k>>].responsePayload
                /\ idem[<<B, k>>] = NoRecord
                   => /\ calls[c].pc = "findExisting"
                         => calls'[c].pc = "idemCreate"
                      /\ calls[c].pc = "idemCreate"
                         => /\ calls'[c].pc = FirstWorkerStep(calls[c].kind)
                            /\ calls'[c].record = ProcessingRecord
                      /\ calls'[c].pc = "done"
                         => calls'[c].outcome \in
                               {Returned("CREATED"), StorageError}
                                 \cup BusinessErrors]_vars

\* two actors used the same key and each got a CREATED result of its own
SameKeyTwoActors ==
    \E c, d \in Calls :
        /\ calls[c].actor # calls[d].actor /\ calls[c].key = calls[d].key
        /\ Created(c) /\ Created(d)
        /\ idem[KeyOf(c)] = CompletedRecord(calls[c].result)
        /\ idem[KeyOf(d)] = CompletedRecord(calls[d].result)
        /\ calls[c].result # calls[d].result
        /\ RowsOf(c) # {} /\ RowsOf(d) # {}

\* ----------------------------------------------------------------- C12
ValidationErrors == {KeyRequired, SameAccount, AmountNotPositive}

\* C12: validation comes before any storage access.  A request leaves the
\* entry of createTransfer / createDeposit / createWithdrawal either rejected
\* with a validation error, having read or written nothing (no record, no
\* Transaction row, no balance, nothing pending), or with a non-empty trimmed
\* key, a positive amount and, for a transfer, two different accounts; a
\* validation error is never raised at any later point of a call.
ValidationBeforeStorage ==
    [][\A c \in Calls :
         /\ (calls[c].pc = "idle" /\ calls'[c].pc # "idle")
            => /\ UNCHANGED <<balance, txRows, idem>>
               /\ calls'[c].rows = {} /\ calls'[c].record = NoRecord
               /\ calls'[c].delta = ZeroDelta /\ calls'[c].locks = {}
               /\ IF calls'[c].pc = "done"
                  THEN /\ calls'[c].outcome \in ValidationErrors
                       /\ calls'[c].at = "validate"
                  ELSE /\ calls'[c].pc = "findExisting"
                       /\ calls'[c].key \in Keys
                       /\ calls'[c].amount > 0
                       /\ calls'[c].kind = "TRANSFER"
                          => calls'[c].from # calls'[c].to
         /\ (calls'[c].outcome \in ValidationErrors /\ calls'[c] # calls[c])
            => calls[c].pc = "idle"]_vars

\* a same-account transfer and a non-positive amount were both rejected and
\* the store is as it was at the start
InvalidRequestsRejected ==
    \E c, d \in Calls :
        /\ Done(c) /\ calls[c].outcome = SameAccount
        /\ Done(d) /\ calls[d].outcome = AmountNotPositive
        /\ calls[c].at = "validate" /\ calls[d].at = "validate"
        /\ txRows = {}
        /\ \A a \in Accounts : balance[a] = InitBalance
        /\ \A uk \in Users \X Keys : idem[uk] = NoRecord

\* ----------------------------------------------------------------- C13
\* C13: a retry of a call refused with InsufficientBalance, under the same
\* (actor, key), with the same operation, account and amount, made while the
\* balance is still what it was (so still below the amount), is refused the
\* same way: the lookup finds no record and goes on, the insert succeeds, the
\* balance check throws InsufficientBalance and nothing is written; it is
\* neither replayed nor answered with Conflict.  The retry leaves the store
\* as the first attempt did, so the same holds for every further retry.
InsufficientRetryFailsAgain ==
    [][\A c, d \in Calls :
         (/\ c # d /\ Done(c) /\ calls[c].outcome = InsufficientBalance
          /\ KeyOf(d) = KeyOf(c) /\ calls[d].kind = calls[c].kind
          /\ calls[d].from = calls[c].from
          /\ calls[d].amount = calls[c].amount
          /\ balance[calls[c].from] < calls[c].amount
          /\ calls[d].pc # "done"
          /\ calls'[d] # calls[d] /\ calls'[d].outcome # StorageError)
         => /\ UNCHANGED <<balance, txRows, idem>>
            /\ idem'[KeyOf(d)] = NoRecord
            /\ calls[d].pc = "findExisting" => calls'[d].pc = "idemCreate"
            /\ calls[d].pc = "idemCreate"
               => /\ calls'[d].pc = FirstWorkerStep(calls[d].kind)
                  /\ calls'[d].record = ProcessingRecord
            /\ calls[d].pc \in {"findFrom", "findAccount"}
               => calls'[d].pc = "done"
            /\ calls'[d].pc = "done"
               => /\ calls'[d].outcome = InsufficientBalance
                  /\ calls'[d].record = NoRecord]_vars

\* the same withdrawal or transfer was refused twice under one key, the
\* second time by the balance check again, and left nothing behind
RefusedTwiceUnderOneKey ==
    \E c, d \in Calls :
        /\ c < d /\ KeyOf(c) = KeyOf(d)
        /\ Done(c) /\ calls[c].outcome = InsufficientBalance
        /\ Done(d) /\ calls[d].outcome = InsufficientBalance
        /\ calls[d].kind = calls[c].kind /\ calls[d].from = calls[c].from
        /\ calls[d].amount = calls[c].amount
        /\ calls[d].at \in {"findFrom", "findAccount"}
        /\ balance[calls[c].from] = InitBalance
        /\ idem[KeyOf(c)] = NoRecord /\ txRows = {}

\* ----------------------------------------------------------------- C15
\* how a successful call reports itself, `replay` being the status value of
\* a result served from a stored record: CREATED exactly when the call ran
\* the operation and committed it (the committed rows of its transferId are
\* there and it returned from the commit), `replay` exactly when the result
\* came from the COMPLETED record of its key, at the first lookup or at the
\* re-read after the lost insert, and nothing else
SuccessStatus(replay) ==
    \A c \in Calls :
        (Done(c) /\ calls[c].outcome.exception = "none")
        => LET status == calls[c].outcome.idempotencyStatus
               executed == calls[c].at = "commit" /\ RowsOf(c) # {}
               served == /\ calls[c].at \in {"findExisting", "reread"}
                         /\ RowsOf(c) = {}
                         /\ idem[KeyOf(c)] = CompletedRecord(calls[c].result)
           IN  /\ status \in {"CREATED", replay}
               /\ status = "CREATED" <=> executed
               /\ status = replay <=> served

DisjointOperations(c, d) ==
    /\ c # d /\ KeyOf(c) # KeyOf(d)
    /\ \A x \in {c, d} : /\ calls[x].kind \in {"DEPOSIT", "WITHDRAWAL"}
                         /\ calls[x].from \in Accounts
                         /\ Owner[calls[x].from] = calls[x].actor
    /\ calls[c].from # calls[d].from

\* the single leg a committed deposit / withdrawal reported to its caller
LegOf(c) == calls[c].result.transactions[1]

TransactionRowsImmutable ==
    [][/\ txRows \subseteq txRows'
       /\ \A r \in txRows : \A q \in txRows' : q.id = r.id => q = r
       /\ \A a \in Accounts :
             (accountRows[a] # NoAccount /\ accountRows'[a] = NoAccount)
             => /\ RowsOn(a) = {}
                /\ txRows' = txRows
       /\ \A r \in txRows' : accountRows'[r.accountId] # NoAccount]_vars

\* an account without rows was deleted, the type of the other account was
\* changed, and the rows committed on that account are all in the table
AdministrationLeftRows ==
    \E a, b \in Accounts :
        /\ accountRows[a] = NoAccount /\ RowsOn(a) = {}
        /\ accountRows[b] = "SAVINGS"
        /\ RowsOn(b) # {}
        /\ \E c \in Calls : Created(c) /\ RowsOf(c) = RowsOn(b)
        /\ balance[b] = InitBalance + SumAmounts(RowsOn(b))

\* ----------------------------------------------------------------- C18
\* the committed Transaction rows that carry transferId t
RowsOfTransfer(t) == {r \in txRows : r.transferId = t}

\* C18: in every committed state the rows sharing one transferId are exactly
\* two TRANSFER rows on two different accounts with amounts -a and +a for
\* some a > 0, or exactly one DEPOSIT row with a positive amount, or exactly
\* one WITHDRAWAL row with a negative amount; every row is COMPLETED.
TransferIdGroupsWellFormed ==
    \A t \in {r.transferId : r \in txRows} :
        LET G == RowsOfTransfer(t)
        IN  /\ \A r \in G : r.status = "COMPLETED"
            /\ \/ /\ Cardinality(G) = 2
                  /\ \A r \in G : r.type = "TRANSFER"
                  /\ \E r, q \in G : /\ r.accountId # q.accountId
                                     /\ r.amountCents < 0
                                     /\ q.amountCents = -r.amountCents
               \/ /\ Cardinality(G) = 1
                  /\ \A r \in G : r.type = "DEPOSIT" /\ r.amountCents > 0
               \/ /\ Cardinality(G) = 1
                  /\ \A r \in G : r.type = "WITHDRAWAL" /\ r.amountCents < 0

\* the table holds the two legs of a transfer under one transferId and the
\* single leg of a withdrawal under another
TransferAndWithdrawalCommitted ==
    \E t, w \in {r.transferId : r \in txRows} :
        /\ t # w
        /\ Cardinality(RowsOfTransfer(t)) = 2
        /\ \A r \in RowsOfTransfer(t) : r.type = "TRANSFER"
        /\ Cardinality(RowsOfTransfer(w)) = 1
        /\ \A r \in RowsOfTransfer(w) : r.type = "WITHDRAWAL"
        /\ Cardinality(txRows) = 3

WithdrawalTakesAmount ==
    [][\A c \in Calls :
         (/\ calls[c].pc = "commit" /\ calls[c].kind = "WITHDRAWAL"
          /\ calls'[c].outcome = Returned("CREATED"))
         => LET a == calls[c].from
                n == calls[c].amount
                new == txRows' \ txRows
            IN  /\ n > 0 /\ Owner[a] = calls[c].actor
                /\ txRows \subseteq txRows'
                /\ Cardinality(new) = 1
                /\ \A r \in new : /\ r.accountId = a
                                  /\ r.amountCents = -n
                                  /\ r.type = "WITHDRAWAL"
                                  /\ r.status = "COMPLETED"
                                  /\ r.transferId = c
                /\ balance'[a] = balance[a] - n
                /\ \A x \in Accounts \ {a} : balance'[x] = balance[x]]_vars

\* a withdrawal is committed: its single negative row is the only row of the
\* table and the account is down by its amount, the other account untouched
WithdrawalCommittedAlone ==
    \E c \in Calls :
        /\ Created(c) /\ calls[c].kind = "WITHDRAWAL"
        /\ txRows = RowsOf(c) /\ Cardinality(txRows) = 1
        /\ LegOf(c).amountCents < 0
        /\ balance[calls[c].from] = InitBalance + LegOf(c).amountCents
        /\ \A x \in Accounts \ {calls[c].from} : balance[x] = InitBalance

\* ----------------------------------------------------------------- C21
\* C21: balanceCents is changed only by the money movements.  An account
\* update, by the owner or by an admin, whatever its body carries, changes
\* the type (or name) of the account and leaves every balance, every
\* Transaction row and every record as it was; a balance changes only in the
\* commit of a call that wrote a balance update for that account.
OnlyMovementsChangeBalance ==
    [][/\ (\E a \in Accounts :
              /\ accountRows[a] # NoAccount /\ accountRows'[a] # NoAccount
              /\ accountRows'[a] # accountRows[a])
          => UNCHANGED <<balance, txRows, idem, calls>>
       /\ \A a \in Accounts :
             balance'[a] # balance[a]
             => /\ accountRows' = accountRows
                /\ \E c \in Calls :
                      /\ calls[c].pc = "commit" /\ calls'[c].pc = "done"
                      /\ balance'[a] = balance[a] + calls[c].delta[a]]_vars

\* the type of an account was changed after a deposit was committed on it,
\* and its balance is still the opening balance plus the deposit
AccountUpdatedKeepsBalance ==
    \E a \in Accounts, c \in Calls :
        /\ accountRows[a] = "SAVINGS"
        /\ Created(c) /\ calls[c].kind = "DEPOSIT" /\ calls[c].from = a
        /\ RowsOn(a) = RowsOf(c)
        /\ balance[a] = InitBalance + LegOf(c).amountCents
        /\ balance[a] > InitBalance

\* ----------------------------------------------------------------- C22
\* C22: only the unique violation of the (userId, idempotencyKey) index sends
\* a call into the replay/Conflict logic.  A call starts to read its record
\* again only out of the PROCESSING insert, and only when a record of its
\* (actor, key) is in the store; a constraint violation raised by any other
\* statement of the unit of work ends the call with the error of the store.
OnlyKeyViolationTranslated ==
    [][\A c \in Calls :
          (calls[c].pc # "reread" /\ calls'[c].pc = "reread")
          => /\ calls[c].pc = "idemCreate"
             /\ UniqueViolation(c)]_vars

\* ----------------------------------------------------------------- C23
\* C23 as stated: when the unit of work of a call fails, by a business error
\* or an error of the store, the IdempotencyRecord of its (actor, key) is in
\* the store afterwards with status PROCESSING.
FailedUnitLeavesProcessingRecord ==
    [][\A c \in Calls :
          (InTransaction(c) /\ Failed(c)')
          => idem'[KeyOf(c)].status = "PROCESSING"]_vars

\* C23, amended: when the unit of work of a call fails, by a business error
\* or an error of the store, the PROCESSING record it inserted goes with it:
\* the table of records is as it was before the call, with no record of the
\* (actor, key), and no call holds a pending record of that key.
FailedUnitLeavesNoRecord ==
    [][\A c \in Calls :
          (InTransaction(c) /\ Failed(c)')
          => /\ calls[c].record # NoRecord
             /\ idem' = idem
             /\ idem'[KeyOf(c)] = NoRecord
             /\ calls'[c].record = NoRecord]_vars

\* a unit of work was ended by an error of the store and one by a refusal,
\* and no record of either key is in the store
FailedUnitsNoRecords ==
    \E c, d \in Calls :
        /\ Done(c) /\ calls[c].outcome = StorageError
        /\ calls[c].at = "transaction"
        /\ Done(d) /\ calls[d].outcome \in BusinessErrors
        /\ idem[KeyOf(c)] = NoRecord /\ idem[KeyOf(d)] = NoRecord

\* ----------------------------------------------------------------- C24
\* call c was cut off by the crash of its process
CrashedCall(c) == Done(c) /\ calls[c].outcome = Crashed

\* C24 as stated: after the process of a call went down between the
\* PROCESSING insert and COMPLETED, the key is stuck: every call with that
\* (actor, key) that ends afterwards ends with Conflict(IN_PROGRESS), and the
\* record of the key is in the store with status PROCESSING.
CrashLeavesKeyStuck ==
    [][\A c, d \in Calls :
          (/\ CrashedCall(c) /\ KeyOf(d) = KeyOf(c)
           /\ ~Done(d) /\ Done(d)')
          => /\ calls'[d].outcome = IdempotencyConflict
             /\ idem'[KeyOf(c)].status = "PROCESSING"]_vars

\* C24, amended: when the process of a call goes down between the PROCESSING
\* insert and COMPLETED, the open transaction is aborted and the insert with
\* it: the store is as it was before the call, with no record of the key.
\* The key is not stuck: no call with that (actor, key) that ends afterwards
\* ends with Conflict(IN_PROGRESS), and the record of the key is never
\* PROCESSING in the store.
CrashLeavesKeyFree ==
    [][/\ \A c \in Calls :
             (~Done(c) /\ CrashedCall(c)')
             => /\ calls[c].record # NoRecord
                /\ UNCHANGED <<balance, txRows, idem>>
                /\ idem'[KeyOf(c)] = NoRecord
       /\ \A c, d \in Calls :
             (/\ CrashedCall(c) /\ KeyOf(d) = KeyOf(c)
              /\ ~Done(d) /\ Done(d)')
             => /\ calls'[d].outcome # IdempotencyConflict
                /\ idem'[KeyOf(c)].status # "PROCESSING"]_vars

\* the process of the first call of a key went down after its balance update,
\* and a later call with the same key executed the operation and committed it
RetryAfterCrashCreated ==
    \E c, d \in Calls :
        /\ c < d /\ KeyOf(c) = KeyOf(d)
        /\ CrashedCall(c) /\ calls[c].at \in {"idemUpdate", "commit"}
        /\ Created(d) /\ RowsOf(d) # {} /\ RowsOf(c) = {}
        /\ idem[KeyOf(d)].status = "COMPLETED"

\* ----------------------------------------------------------------- C25
\* call c has opened its unit of work and not ended it
UnitOfWorkOpen(c) == calls[c].pc = "idemCreate" \/ InTransaction(c)

\* C25: every unit of work that was opened is ended, by its commit or by a
\* rollback; two transfers in opposite directions that each hold the lock of
\* their from-account and wait for the other's do not wait forever.
UnitOfWorkTerminates ==
    \A c \in Calls : UnitOfWorkOpen(c) ~> Done(c)

\* two transfers in opposite directions each hold the row lock of their
\* from-account and wait for the lock of their to-account
OppositeTransfersDeadlocked ==
    \E c, d \in Calls :
        /\ c # d
        /\ calls[c].kind = "TRANSFER" /\ calls[d].kind = "TRANSFER"
        /\ calls[c].from = calls[d].to /\ calls[c].to = calls[d].from
        /\ calls[c].pc = "updateTo" /\ calls[d].pc = "updateTo"
        /\ calls[c].locks = {calls[c].from}
        /\ calls[d].locks = {calls[d].from}

BalancesHold64Bits ==
    \A c \in Calls : Done(c) => calls[c].outcome # ValueOutOfRange

\* ----------------------------------------------------------------- C28
\* the failure kind of an outcome, by the place that threw it
FailureKind(o) ==
    IF o \in ValidationErrors THEN "InvalidRequest"
    ELSE IF o = InsufficientBalance THEN "InsufficientBalance"
    ELSE IF o.exception = "NotFoundException" THEN "AccountNotFound"
    ELSE IF o = IdempotencyConflict THEN "Conflict"
    ELSE "Infrastructure"

\* what a caller can test of an error without reading its message text: the
\* class of the exception and the fields of its body besides the message
ProgrammaticValue(o) == <<o.exception, o.idempotencyStatus>>

\* C28: failures of different kinds are different error values by type or
\* code: two calls that failed with InvalidRequest, AccountNotFound,
\* InsufficientBalance or Conflict(IN_PROGRESS), one kind each, got errors
\* that differ in more than the message text.
FailureKindsDistinct ==
    \A c, d \in Calls :
        (/\ Failed(c) /\ Failed(d)
         /\ FailureKind(calls[c].outcome) # "Infrastructure"
         /\ FailureKind(calls[d].outcome) # "Infrastructure"
         /\ FailureKind(calls[c].outcome) # FailureKind(calls[d].outcome))
        => ProgrammaticValue(calls[c].outcome)
              # ProgrammaticValue(calls[d].outcome)

\* ----------------------------------------------------------------- C29
\* C29: no update of a balance is lost.  In every committed state the
\* balance of every account is the balance it was created with plus the
\* amounts of all committed Transaction rows on it, every committed row is a
\* leg of a call that returned CREATED, and every leg of such a call is a
\* committed row, whatever the interleaving of the calls.
NoLostUpdates ==
    /\ \A a \in Accounts :
          balance[a] = InitBalance + SumAmounts({r \in txRows : r.accountId = a})
    /\ \A r \in txRows : Created(r.transferId)
    /\ \A c \in Calls :
          Created(c) =>
             \A i \in DOMAIN calls[c].result.transactions :
                \E r \in txRows :
                   toTransactionSummary(r) = calls[c].result.transactions[i]

\* two debits of one account ran side by side (both passed the balance check
\* on the opening balance) and both are counted in the balance
ConcurrentDebitsBothCounted ==
    \E c, d \in Calls, a \in Accounts :
        /\ c # d /\ Created(c) /\ Created(d)
        /\ \E r \in RowsOf(c) : r.accountId = a /\ r.amountCents < 0
        /\ \E r \in RowsOf(d) : r.accountId = a /\ r.amountCents < 0
        /\ balance[a] = InitBalance + SumAmounts(RowsOn(a))
        /\ balance[a] < 0

\* ----------------------------------------------------------------- C30
\* the (actor, key) pairs whose record in the store is COMPLETED
CompletedKeys == {uk \in Users \X Keys : idem[uk].status = "COMPLETED"}

\* C30: records and rows commit together.  In every committed state each
\* COMPLETED record has a payload, every leg of the payload is a Transaction
\* row of the store with the transferId of the payload, and the transferId of
\* every Transaction row of the store is in the payload of exactly one
\* COMPLETED record; no record of the store is PROCESSING.
RecordsMatchRows ==
    /\ \A uk \in CompletedKeys :
          LET payload == idem[uk].responsePayload
          IN  /\ payload # <<>>
              /\ payload.transactions # <<>>
              /\ \A i \in DOMAIN payload.transactions :
                    \E r \in txRows :
                       /\ r.transferId = payload.transferId
                       /\ toTransactionSummary(r) = payload.transactions[i]
    /\ \A r \in txRows :
          Cardinality({uk \in CompletedKeys :
             idem[uk].responsePayload.transferId = r.transferId}) = 1
    /\ \A uk \in Users \X Keys : idem[uk].status # "PROCESSING"

\* a transfer and a single-leg operation were committed under two keys: two
\* COMPLETED records, three rows
TwoRecordsThreeRows ==
    /\ Cardinality(CompletedKeys) = 2
    /\ Cardinality(txRows) = 3
    /\ \E uk \in CompletedKeys :
          idem[uk].responsePayload.type = "TRANSFER"

\* ----------------------------------------------------------------- C31
\* C31: no committed state holds a PROCESSING record.  Every record of the
\* store is COMPLETED with its payload; a PROCESSING record exists only as a
\* pending write of the open unit of work that inserted it, and as long as it
\* does the store shows no record of that (actor, key) to any other reader.
NoCommittedProcessing ==
    /\ \A uk \in Users \X Keys :
          \/ idem[uk] = NoRecord
          \/ idem[uk].status = "COMPLETED" /\ idem[uk].responsePayload # <<>>
    /\ \A c \in Calls :
          /\ calls[c].record # NoRecord => InTransaction(c)
          /\ calls[c].record.status = "PROCESSING"
                => idem[KeyOf(c)] = NoRecord

\* a call holds the pending PROCESSING record of a key and has written a leg,
\* and a second call with the key has looked the record up, found none, and
\* is about to insert
PendingRecordUnseen ==
    \E c, d \in Calls :
        /\ c # d /\ KeyOf(c) = KeyOf(d)
        /\ calls[c].record = ProcessingRecord /\ calls[c].rows # {}
        /\ calls[d].pc = "idemCreate"
        /\ idem[KeyOf(c)] = NoRecord

\* ----------------------------------------------------------------- C32
\* C32: the payload is validated before the record of the key is looked up.
\* A call that is served the stored result of a key carries a valid payload
\* (a positive amount and, for a transfer, two different accounts); a call
\* rejected for its payload was rejected at the entry, whatever record its
\* key has, and the rejection leaves every record as it was.
PayloadValidatedBeforeLookup ==
    [][\A c \in Calls :
          /\ (~Done(c) /\ Replayed(c)')
             => /\ calls[c].amount > 0
                /\ calls[c].kind = "TRANSFER" => calls[c].from # calls[c].to
          /\ (~Done(c) /\ Done(c)'
               /\ calls'[c].outcome \in {SameAccount, AmountNotPositive})
             => /\ calls[c].pc = "idle"
                /\ UNCHANGED <<balance, txRows, idem>>]_vars

\* a key was completed by a deposit and then reused with a non-positive
\* amount: the second call was rejected and the record still holds the result
\* of the first
CompletedKeyInvalidPayload ==
    \E c, d \in Calls :
        /\ c < d /\ KeyOf(c) = KeyOf(d)
        /\ Created(c) /\ calls[c].kind = "DEPOSIT"
        /\ Done(d) /\ calls[d].outcome = AmountNotPositive
        /\ calls[d].at = "validate"
        /\ idem[KeyOf(d)] = CompletedRecord(calls[c].result)
        /\ RowsOf(d) = {} /\ txRows = RowsOf(c)

\* ----------------------------------------------------------------- C33
\* C33: doTransfer checks the from-account of the caller first, the balance
\* second and the to-account third.  The first statement of a transfer ends
\* it with AccountNotFound when the from-account is absent or another
\* actor's, whatever the amount, and otherwise with InsufficientBalance when
\* the balance is below the amount, whether or not the to-account exists; a
\* missing to-account is reported only by the second statement, for a
\* transfer that passed both checks.  None of these ends changes anything.
TransferChecksInOrder ==
    [][\A c \in Calls :
          /\ (/\ calls[c].pc = "findFrom" /\ calls'[c] # calls[c]
               /\ calls'[c].outcome # StorageError)
             => IF ~OwnedBy(calls[c].from, calls[c].actor)
                THEN /\ calls'[c].outcome =
                           AccountNotFound("From account not found")
                     /\ UNCHANGED <<balance, txRows, idem>>
                ELSE IF balance[calls[c].from] < calls[c].amount
                THEN /\ calls'[c].outcome = InsufficientBalance
                     /\ UNCHANGED <<balance, txRows, idem>>
                ELSE calls'[c].pc = "findTo"
          /\ (~Done(c) /\ Done(c)'
               /\ calls'[c].outcome = AccountNotFound("To account not found"))
             => /\ calls[c].pc = "findTo"
                /\ OwnedBy(calls[c].from, calls[c].actor)
                /\ ~AccountExists(calls[c].to)
                /\ UNCHANGED <<balance, txRows, idem>>]_vars

\* a transfer of more than the balance to an account that does not exist was
\* refused with InsufficientBalance, and a transfer out of another actor's
\* account with AccountNotFound; the store is as it was at the start
TransferRefusedByFirstCheck ==
    \E c, d \in Calls :
        /\ Done(c) /\ calls[c].kind = "TRANSFER"
        /\ calls[c].outcome = InsufficientBalance
        /\ calls[c].to = MissingAccountId /\ calls[c].at = "findFrom"
        /\ Done(d) /\ calls[d].kind = "TRANSFER"
        /\ calls[d].outcome = AccountNotFound("From account not found")
        /\ calls[d].from \in Accounts /\ Owner[calls[d].from] # calls[d].actor
        /\ txRows = {}
        /\ \A a \in Accounts : balance[a] = InitBalance
        /\ \A uk \in Users \X Keys : idem[uk] = NoRecord

\* ----------------------------------------------------------------- C34
\* C34: referential integrity of the ledger.  After every step each
\* Transaction row, committed or written by an open unit of work, has an
\* accountId whose Account row exists; an account that a committed row
\* points at is not removed by deleteAccount or deleteUser, and a step that
\* removes an account removes no Transaction row.
ReferentialIntegrity ==
    [][/\ \A r \in txRows' : accountRows'[r.accountId] # NoAccount
       /\ \A c \in Calls : \A r \in calls'[c].rows :
             accountRows'[r.accountId] # NoAccount
       /\ \A a \in Accounts :
             AccountReferenced(a) => accountRows'[a] # NoAccount
       /\ (\E a \in Accounts :
              accountRows[a] # NoAccount /\ accountRows'[a] = NoAccount)
          => txRows' = txRows]_vars

\* an account with committed rows that no open unit of work holds: a
\* deleteAccount of it can be sent and is refused, while the other account,
\* which had no rows, was deleted
ReferencedAccountKept ==
    \E a, b \in Accounts :
        /\ AccountExists(a) /\ AccountReferenced(a) /\ ~AccountPinned(a)
        /\ ENABLED deleteAccount(a)
        /\ \A c \in Calls : Done(c)
        /\ ~AccountExists(b) /\ ~AccountReferenced(b)
        /\ txRows = RowsOn(a)

TypeOK ==
    /\ balance \in [Accounts -> Int]
    /\ accountRows \in [Accounts -> AccountTypes \cup {NoAccount}]
    /\ \A c \in Calls : calls[c].pc \in
          {"idle", "findExisting", "idemCreate", "reread", "done"}
          \cup {"findFrom", "findTo", "createFrom", "createTo", "updateFrom",
                "updateTo", "findAccount", "createLeg", "updateAccount",
                "idemUpdate", "commit"}
=============================================================================
